---- MODULE Spec2Model ----
(***************************************************************************)
(* CSV2API-Converter (src/app.py): a process-wide DataFrame, app.state.df, *)
(* replaced by POST /upload and read by GET /records and GET /search.      *)
(*                                                                         *)
(* Text is a sequence of one-character strings.  A cell value is a record  *)
(* [t, n, d, s]: t is the kind, n/d a decimal number (d a power of ten),   *)
(* s the characters of a text value.  pandas stores a missing cell as the  *)
(* float NaN, in columns of every dtype.                                   *)
(***************************************************************************)
EXTENDS Integers, Sequences, FiniteSets, TLC

\* ------------------------------------------------------------------ bounds
MaxSkip == 3
MaxLimit == 2
MaxQLen == 2

\* ------------------------------------------------------------------ values
I(k) == [t |-> "int", n |-> k, d |-> 1, s |-> <<>>]
F(k, e) == [t |-> "float", n |-> k, d |-> e, s |-> <<>>]
NaN == [t |-> "nan", n |-> 0, d |-> 1, s |-> <<>>]
PInf == [t |-> "inf", n |-> 1, d |-> 1, s |-> <<>>]
NInf == [t |-> "inf", n |-> -1, d |-> 1, s |-> <<>>]
S(x) == [t |-> "str", n |-> 0, d |-> 1, s |-> x]
None == [t |-> "null", n |-> 0, d |-> 1, s |-> <<>>]
True == [t |-> "bool", n |-> 1, d |-> 1, s |-> <<>>]
False == [t |-> "bool", n |-> 0, d |-> 1, s |-> <<>>]

Digits == <<"0", "1", "2", "3", "4", "5", "6", "7", "8", "9">>

IsDigit(c) == \E i \in 1..10 : Digits[i] = c

DigitVal(c) == (CHOOSE i \in 1..10 : Digits[i] = c) - 1

Lower(c) ==
  CASE c = "A" -> "a" [] c = "B" -> "b" [] c = "F" -> "f" [] c = "I" -> "i"
    [] c = "N" -> "n" [] c = "O" -> "o" [] OTHER -> c

LowerText(x) == [i \in 1..Len(x) |-> Lower(x[i])]

RECURSIVE DigitsVal(_)
\* the number written by a sequence of digits
DigitsVal(x) ==
  IF x = <<>> THEN 0
  ELSE 10 * DigitsVal(SubSeq(x, 1, Len(x) - 1)) + DigitVal(x[Len(x)])

RECURSIVE Pow10(_)
Pow10(k) == IF k = 0 THEN 1 ELSE 10 * Pow10(k - 1)

RECURSIVE Norm(_, _)
\* a decimal n/d without trailing zeros in its fraction
Norm(k, e) == IF e > 1 /\ k % 10 = 0 THEN Norm(k \div 10, e \div 10) ELSE F(k, e)

AllDigits(x) == \A i \in 1..Len(x) : IsDigit(x[i])

Unsigned(x) == IF x # <<>> /\ x[1] = "-" THEN Tail(x) ELSE x

Sign(x) == IF x # <<>> /\ x[1] = "-" THEN -1 ELSE 1

\* int(value), line 113: an optional sign and one or more digits.  (Python
\* also takes surrounding blanks, "+" and "_" between digits; the request
\* values of this model hold none of them.)
IntOk(x) == Unsigned(x) # <<>> /\ AllDigits(Unsigned(x))

IntOf(x) == I(Sign(x) * DigitsVal(Unsigned(x)))

DotAt(x) == CHOOSE i \in 1..Len(x) : x[i] = "."

\* float(value), line 115: digits with at most one ".", at least one digit;
\* or "inf", "infinity", "nan" in any case; each with an optional sign.
\* (Exponents, blanks, "+" and "_" do not occur in this model's values.)
FloatWord(x) == LowerText(Unsigned(x))

FloatOk(x) ==
  LET u == Unsigned(x) IN
    \/ FloatWord(x) \in {<<"n", "a", "n">>, <<"i", "n", "f">>,
                         <<"i", "n", "f", "i", "n", "i", "t", "y">>}
    \/ /\ u # <<>>
       /\ \A i \in 1..Len(u) : IsDigit(u[i]) \/ u[i] = "."
       /\ Cardinality({i \in 1..Len(u) : u[i] = "."}) <= 1
       /\ \E i \in 1..Len(u) : IsDigit(u[i])

FloatOf(x) ==
  LET u == Unsigned(x) IN
    IF FloatWord(x) = <<"n", "a", "n">> THEN NaN
    ELSE IF FloatWord(x) \in {<<"i", "n", "f">>,
                              <<"i", "n", "f", "i", "n", "i", "t", "y">>}
      THEN (IF Sign(x) = 1 THEN PInf ELSE NInf)
    ELSE IF AllDigits(u) THEN F(Sign(x) * DigitsVal(u), 1)
    ELSE LET whole == SubSeq(u, 1, DotAt(u) - 1)
             frac == SubSeq(u, DotAt(u) + 1, Len(u))
         IN Norm(Sign(x) * DigitsVal(whole \o frac), Pow10(Len(frac)))

RECURSIVE NatText(_)
\* str() of a natural number
NatText(k) ==
  IF k < 10 THEN <<Digits[k + 1]>>
  ELSE NatText(k \div 10) \o <<Digits[(k % 10) + 1]>>

RECURSIVE FracText(_, _)
\* the fraction digits of k/e, k < e, e a power of ten
FracText(k, e) ==
  IF e = 1 THEN <<>>
  ELSE <<Digits[(k \div (e \div 10)) + 1]>> \o FracText(k % (e \div 10), e \div 10)

Abs(k) == IF k < 0 THEN -k ELSE k

\* The textual form of a stored value: str() of the Python value that the
\* cell holds (30 -> "30", 1.5 -> "1.5", 30.0 -> "30.0", nan -> "nan").
TextOf(v) ==
  CASE v.t = "str" -> v.s
    [] v.t = "int" -> (IF v.n < 0 THEN <<"-">> ELSE <<>>) \o NatText(Abs(v.n))
    [] v.t = "float" ->
         (IF v.n < 0 THEN <<"-">> ELSE <<>>) \o NatText(Abs(v.n) \div v.d)
           \o <<".">>
           \o (IF v.d = 1 THEN <<"0">> ELSE FracText(Abs(v.n) % v.d, v.d))
    [] v.t = "inf" -> (IF v.n < 0 THEN <<"-">> ELSE <<>>) \o <<"i", "n", "f">>
    [] v.t = "nan" -> <<"n", "a", "n">>
    [] v.t = "bool" -> (IF v.n = 1 THEN <<"T", "r", "u", "e">>
                                   ELSE <<"F", "a", "l", "s", "e">>)
    [] OTHER -> <<"N", "o", "n", "e">>

\* ------------------------------------------------------------------ tables
\* A DataFrame: the column names in order, the dtype pandas inferred for each
\* column, and the rows in order, each a function from column name to value.
\* NoTable is app.state.df = None, line 16.
NoTable == [isNone |-> TRUE, columns |-> <<>>, dtype |-> <<>>, rows |-> <<>>]

Frame(cols, dtypes, rs) ==
  [isNone |-> FALSE, columns |-> cols, dtype |-> dtypes, rows |-> rs]

Bob == S(<<"B", "o", "b">>)
Ann == S(<<"A", "n", "n">>)

\* The uploaded byte strings of the model, by name:
\*   "people"  name,age\nBob,30\nAnn,25\nAnn,30\n
\*   "scores"  name,score\nBob,1.5\n,inf\nAnn,-inf\nAnn,\n
\*   "nums"    skip,age\n1,30\n0,25\n
\*   "flags"   ok,age\nTrue,30\nFalse,25\n
\*   "header"  name,age\n
\*   "empty"   (no bytes: pandas raises EmptyDataError)
Contents == {"people", "scores", "nums", "flags", "header", "empty"}

\* pd.read_csv, line 27: whether it returns, and the DataFrame it returns.
ReadCsvOk(c) == c # "empty"

read_csv(c) ==
  CASE c = "people" ->
         Frame(<<"name", "age">>, [name |-> "object", age |-> "int64"],
               << [name |-> Bob, age |-> I(30)],
                  [name |-> Ann, age |-> I(25)],
                  [name |-> Ann, age |-> I(30)] >>)
    [] c = "scores" ->
         Frame(<<"name", "score">>, [name |-> "object", score |-> "float64"],
               << [name |-> Bob, score |-> F(15, 10)],
                  [name |-> NaN, score |-> PInf],
                  [name |-> Ann, score |-> NInf],
                  [name |-> Ann, score |-> NaN] >>)
    [] c = "nums" ->
         Frame(<<"skip", "age">>, [skip |-> "int64", age |-> "int64"],
               << [skip |-> I(1), age |-> I(30)],
                  [skip |-> I(0), age |-> I(25)] >>)
    [] c = "flags" ->
         Frame(<<"ok", "age">>, [ok |-> "bool", age |-> "int64"],
               << [ok |-> True, age |-> I(30)],
                  [ok |-> False, age |-> I(25)] >>)
    [] OTHER ->
         Frame(<<"name", "age">>, [name |-> "object", age |-> "object"], <<>>)

Columns(t) == {t.columns[i] : i \in 1..Len(t.columns)}

\* ------------------------------------------------------------------ helpers
\* file.filename.endswith('.csv'), line 23
EndsWith(x, suffix) ==
  /\ Len(x) >= Len(suffix)
  /\ SubSeq(x, Len(x) - Len(suffix) + 1, Len(x)) = suffix

IsNumber(v) == v.t \in {"int", "float"}

\* The elementwise == of a pandas column with a scalar, line 58: numbers
\* compare by value, infinities by sign, text by characters; NaN equals
\* nothing, and neither a number nor a boolean equals a text.  (_cast_type
\* gives a text for a bool column, so a boolean meets no other scalar.)
pandas_eq(a, b) ==
  \/ IsNumber(a) /\ IsNumber(b) /\ a.n * b.d = b.n * a.d
  \/ a.t = "inf" /\ b.t = "inf" /\ a.n = b.n
  \/ a.t = "str" /\ b.t = "str" /\ a.s = b.s

\* _cast_type without the float branch of lines 114-115
cast_type_int_only(dtype, value) ==
  IF dtype = "int64" /\ IntOk(value) THEN IntOf(value) ELSE S(value)

\* _cast_type, lines 107-118
_cast_type(dtype, value) ==
  IF dtype = "int64" /\ IntOk(value) THEN IntOf(value)
  ELSE IF dtype = "float64" /\ FloatOk(value) THEN FloatOf(value)
  ELSE S(value)

\* results[results[key] == v], line 58: the rows kept, in order
Keep(rs, key, v) == SelectSeq(rs, LAMBDA r : pandas_eq(r[key], v))

RECURSIVE FilterLoopRestart(_, _, _, _)
\* the loop of lines 56-58 filtering df, not results, on every pass: the last
\* filter alone decides
FilterLoopRestart(t, rs, params, keys) ==
  IF keys = {} THEN rs
  ELSE LET key == CHOOSE k \in keys : TRUE
           kept == IF key \in Columns(t)
                     THEN SelectSeq(t.rows, LAMBDA r :
                            pandas_eq(r[key], S(params[key]))
                              \/ (t.dtype[key] = "int64" /\ IntOk(params[key])
                                    /\ pandas_eq(r[key], IntOf(params[key])))
                              \/ (t.dtype[key] = "float64" /\ FloatOk(params[key])
                                    /\ pandas_eq(r[key], FloatOf(params[key]))))
                     ELSE rs
       IN FilterLoopRestart(t, kept, params, keys \ {key})

RECURSIVE FilterLoop(_, _, _, _)
\* the loop of lines 56-58 over the entries of params still to visit
FilterLoop(t, rs, params, keys) ==
  IF keys = {} THEN rs
  ELSE LET key == CHOOSE k \in keys : TRUE
           kept == IF key \in Columns(t)
                     THEN Keep(rs, key, _cast_type(t.dtype[key], params[key]))
                     ELSE rs
       IN FilterLoop(t, kept, params, keys \ {key})

\* params.pop('skip'), params.pop('limit'), lines 54-55
Popped(query) == DOMAIN query \ {"skip", "limit"}

Min(a, b) == IF a < b THEN a ELSE b

Max(a, b) == IF a > b THEN a ELSE b

\* a slice bound of Python on a sequence of length n
SliceBound(i, n) == IF i < 0 THEN Max(0, n + i) ELSE Min(i, n)

\* iloc[skip:limit]: the stop taken for a count
iloc_stop_is_limit(rs, skip, limit) ==
  LET lo == SliceBound(skip, Len(rs))
      hi == SliceBound(limit, Len(rs))
  IN IF hi > lo THEN SubSeq(rs, lo + 1, hi) ELSE <<>>

\* results.iloc[skip:skip + limit], lines 61 and 95
iloc(rs, skip, limit) ==
  LET lo == SliceBound(skip, Len(rs))
      hi == SliceBound(skip + limit, Len(rs))
  IN IF hi > lo THEN SubSeq(rs, lo + 1, hi) ELSE <<>>

\* the replacement of line 37 without its two infinities
CleanValueNanOnly(v) == IF v.t = "nan" THEN None ELSE v

\* df.replace({np.nan: None, np.inf: None, -np.inf: None}), line 37, on a value
CleanValue(v) == IF v.t \in {"nan", "inf"} THEN None ELSE v

\* _clean_df, lines 33-37, followed by to_dict(orient='records')
_clean_df(rs) ==
  [i \in 1..Len(rs) |-> [c \in DOMAIN rs[i] |-> CleanValue(rs[i][c])]]

\* df.select_dtypes(include=['object', 'string']).columns, line 84
str_cols(t) == SelectSeq(t.columns, LAMBDA c : t.dtype[c] = "object")

\* Series.astype(str), line 91: str() of each cell, so the missing cell of an
\* object column becomes the text "nan" (the columns read_csv gives for text
\* are of dtype object, the first dtype line 84 selects)
astype_str(v) == TextOf(v)

\* re.compile(q): of the characters of this model's search terms only "("
\* makes the pattern invalid (re.error, which line 91 does not catch)
PatternOk(q) == \A i \in 1..Len(q) : q[i] # "("

\* Series.str.contains(q, case=False, na=False), line 91, on one cell: q is a
\* regular expression (regex=True is the default) searched with IGNORECASE;
\* "." matches any character, every other character of the model itself
contains(x, q) ==
  \E i \in 0..(Len(x) - Len(q)) :
    \A j \in 1..Len(q) : q[j] = "." \/ Lower(q[j]) = Lower(x[i + j])

\* the mask of lines 89-91 on one row: OR over the string columns
Mask(t, r, q) ==
  \E i \in 1..Len(str_cols(t)) : contains(astype_str(r[str_cols(t)[i]]), q)

\* ------------------------------------------------------------------ requests
DefaultSkip == 0
DefaultLimit == 100

Join(f, g) ==
  [k \in DOMAIN f \cup DOMAIN g |-> IF k \in DOMAIN f THEN f[k] ELSE g[k]]

NoParams == [k \in {} |-> <<>>]

\* the textual forms of the cells of the uploaded tables, and the empty text
RawValues ==
  {<<>>} \cup
  UNION {UNION {{TextOf(read_csv(c).rows[i][k]) : k \in Columns(read_csv(c))}
                 : i \in 1..Len(read_csv(c).rows)}
          : c \in {x \in Contents : ReadCsvOk(x)}}

FilterKeySets ==
  {{}, {"name"}, {"age"}, {"score"}, {"ok"}, {"name", "age"}, {"name", "score"}}

Filters == UNION {[K -> RawValues] : K \in FilterKeySets}

\* a pagination parameter of the query string: absent, or the text of an integer
PageArgs(key, max) ==
  {NoParams} \cup {[k \in {key} |-> TextOf(I(n))] : n \in -1..max}

\* the query strings of GET /records, as request.query_params holds them
Queries ==
  {Join(f, Join(sk, lm)) :
     f \in Filters, sk \in PageArgs("skip", MaxSkip), lm \in PageArgs("limit", MaxLimit)}

QChars == {"b", "O", "n", ".", "("}

\* the search terms of GET /search
Terms == UNION {[1..k -> QChars] : k \in 0..MaxQLen}

Skips == -1..MaxSkip

Limits == (-1..MaxLimit) \cup {DefaultLimit}

\* the requests made while uploads run beside them
FewQueries ==
  {Join(f, Join(sk, lm)) :
     f \in {NoParams, [name |-> <<"B", "o", "b">>], [age |-> <<"3", "0">>]},
     sk \in PageArgs("skip", MaxSkip),
     lm \in {NoParams, [limit |-> <<"1">>]}}

FewTerms == {<<>>, <<"b">>, <<"(">>}

Filenames == {<<"a", ".", "c", "s", "v">>, <<"a", ".", "t", "x", "t">>, <<"c", "s", "v">>}

\* skip: int = 0 and limit: int = 100 of line 40, read from the query string
SkipOf(query) ==
  IF "skip" \in DOMAIN query THEN IntOf(query["skip"]).n ELSE DefaultSkip

LimitOf(query) ==
  IF "limit" \in DOMAIN query THEN IntOf(query["limit"]).n ELSE DefaultLimit

\* ------------------------------------------------------------------ state
VARIABLES
  df,       \* app.state.df
  up,       \* the response to the latest upload: [status, rows]
  lastOk,   \* history: the contents of the latest successful upload
  prevOk,   \* history: the contents of the successful upload before it
  pc,       \* where the query handler in progress stands
  rq,       \* its request
  src,      \* history: lastOk when the handler read app.state.df
  ldf,      \* its local df
  results,  \* its local results, as the rows of that DataFrame
  resp      \* its response, once it has one

vars == <<df, up, lastOk, prevOk, pc, rq, src, ldf, results, resp>>

handler == <<pc, rq, src, ldf, results, resp>>

NoRequest == [op |-> "none", query |-> NoParams, q |-> <<>>, skip |-> 0, limit |-> 0]

NoResponse == [status |-> 0, body |-> <<>>]

NoDataError == [status |-> 404, body |-> [detail |-> "No CSV data uploaded yet."]]

ServerError == [status |-> 500, body |-> [detail |-> "Internal Server Error"]]

Init ==
  /\ df = NoTable
  /\ up = [status |-> 0, rows |-> 0]
  /\ lastOk = "none"
  /\ prevOk = "none"
  /\ pc = "idle"
  /\ rq = NoRequest
  /\ src = "none"
  /\ ldf = NoTable
  /\ results = <<>>
  /\ resp = NoResponse

\* upload_csv with line 28 adding the parsed rows to a table of the same
\* columns instead of replacing it
upload_csv_append(filename, c) ==
  /\ IF ~EndsWith(filename, <<".", "c", "s", "v">>)
       THEN /\ up' = [status |-> 400, rows |-> 0]
            /\ UNCHANGED <<df, lastOk, prevOk>>
       ELSE IF ~ReadCsvOk(c)
         THEN /\ up' = [status |-> 500, rows |-> 0]
              /\ UNCHANGED <<df, lastOk, prevOk>>
         ELSE /\ df' = IF df.columns = read_csv(c).columns
                         THEN [read_csv(c) EXCEPT !.rows = df.rows \o @]
                         ELSE read_csv(c)
              /\ up' = [status |-> 200, rows |-> Len(read_csv(c).rows)]
              /\ lastOk' = c
              /\ prevOk' = lastOk
  /\ UNCHANGED handler

\* upload_csv with line 28 moved before the parse: the store is cleared first
upload_csv_clear_first(filename, c) ==
  /\ IF ~EndsWith(filename, <<".", "c", "s", "v">>)
       THEN /\ up' = [status |-> 400, rows |-> 0]
            /\ UNCHANGED <<df, lastOk, prevOk>>
       ELSE IF ~ReadCsvOk(c)
         THEN /\ up' = [status |-> 500, rows |-> 0]
              /\ df' = NoTable
              /\ UNCHANGED <<lastOk, prevOk>>
         ELSE /\ df' = read_csv(c)
              /\ up' = [status |-> 200, rows |-> Len(read_csv(c).rows)]
              /\ lastOk' = c
              /\ prevOk' = lastOk
  /\ UNCHANGED handler

\* POST /upload, lines 18-31.  The assignment of line 28 is the one write of
\* app.state.df; the checks and the parse before it touch nothing shared.
upload_csv(filename, c) ==
  /\ IF ~EndsWith(filename, <<".", "c", "s", "v">>)
       THEN /\ up' = [status |-> 400, rows |-> 0]
            /\ UNCHANGED <<df, lastOk, prevOk>>
       ELSE IF ~ReadCsvOk(c)
         THEN /\ up' = [status |-> 500, rows |-> 0]
              /\ UNCHANGED <<df, lastOk, prevOk>>
         ELSE /\ df' = read_csv(c)
              /\ up' = [status |-> 200, rows |-> Len(read_csv(c).rows)]
              /\ lastOk' = c
              /\ prevOk' = lastOk
  /\ UNCHANGED handler

\* get_records_read taking a table without rows for no table (if df.empty)
get_records_read_empty(query) ==
  /\ pc = "idle"
  /\ rq' = [op |-> "records", query |-> query, q |-> <<>>,
            skip |-> SkipOf(query), limit |-> LimitOf(query)]
  /\ src' = lastOk
  /\ ldf' = df
  /\ IF df.isNone \/ df.rows = <<>>
       THEN pc' = "done" /\ resp' = NoDataError
       ELSE pc' = "records_filter" /\ resp' = resp
  /\ UNCHANGED <<df, up, lastOk, prevOk, results>>

\* GET /records, lines 45-47: the handler's one read of app.state.df
get_records_read(query) ==
  /\ pc = "idle"
  /\ rq' = [op |-> "records", query |-> query, q |-> <<>>,
            skip |-> SkipOf(query), limit |-> LimitOf(query)]
  /\ src' = lastOk
  /\ ldf' = df
  /\ IF df.isNone
       THEN pc' = "done" /\ resp' = NoDataError
       ELSE pc' = "records_filter" /\ resp' = resp
  /\ UNCHANGED <<df, up, lastOk, prevOk, results>>

\* GET /records, lines 50-58
get_records_filter ==
  /\ pc = "records_filter"
  /\ results' = FilterLoop(ldf, ldf.rows, rq.query, Popped(rq.query))
  /\ pc' = "records_page"
  /\ UNCHANGED <<df, up, lastOk, prevOk, rq, src, ldf, resp>>

\* lines 61-71 and 95-105: the page, cleaned, and the response
PageResponse(rs, skip, limit) ==
  [status |-> 200,
   body |-> [total |-> Len(rs), skip |-> skip, limit |-> limit,
             data |-> _clean_df(iloc(rs, skip, limit))]]

\* get_records_page reading app.state.df again for the rows of the page
get_records_page_reread ==
  /\ pc = "records_page"
  /\ resp' = [PageResponse(results, rq.skip, rq.limit) EXCEPT
                !.body.data = _clean_df(iloc(df.rows, rq.skip, rq.limit))]
  /\ pc' = "done"
  /\ UNCHANGED <<df, up, lastOk, prevOk, rq, src, ldf, results>>

\* GET /records, lines 61-71
get_records_page ==
  /\ pc = "records_page"
  /\ resp' = PageResponse(results, rq.skip, rq.limit)
  /\ pc' = "done"
  /\ UNCHANGED <<df, up, lastOk, prevOk, rq, src, ldf, results>>

\* GET /search, lines 79-81
search_read(q, skip, limit) ==
  /\ pc = "idle"
  /\ rq' = [op |-> "search", query |-> NoParams, q |-> q, skip |-> skip, limit |-> limit]
  /\ src' = lastOk
  /\ ldf' = df
  /\ IF df.isNone
       THEN pc' = "done" /\ resp' = NoDataError
       ELSE pc' = "search_mask" /\ resp' = resp
  /\ UNCHANGED <<df, up, lastOk, prevOk, results>>

\* GET /search, lines 84-92
search_mask ==
  /\ pc = "search_mask"
  /\ IF str_cols(ldf) = <<>>
       THEN /\ resp' = [status |-> 200, body |-> [total |-> 0, data |-> <<>>]]
            /\ pc' = "done"
            /\ UNCHANGED results
       ELSE IF ~PatternOk(rq.q)
         THEN /\ resp' = ServerError
              /\ pc' = "done"
              /\ UNCHANGED results
         ELSE /\ results' = SelectSeq(ldf.rows, LAMBDA r : Mask(ldf, r, rq.q))
              /\ pc' = "search_page"
              /\ UNCHANGED resp
  /\ UNCHANGED <<df, up, lastOk, prevOk, rq, src, ldf>>

\* GET /search, lines 95-105
search_page ==
  /\ pc = "search_page"
  /\ resp' = PageResponse(results, rq.skip, rq.limit)
  /\ pc' = "done"
  /\ UNCHANGED <<df, up, lastOk, prevOk, rq, src, ldf, results>>

\* the response is sent and the handler's frame is gone
Deliver ==
  /\ pc = "done"
  /\ pc' = "idle"
  /\ rq' = NoRequest
  /\ src' = "none"
  /\ ldf' = NoTable
  /\ results' = <<>>
  /\ resp' = NoResponse
  /\ UNCHANGED <<df, up, lastOk, prevOk>>

\* Uploads run on the event loop and the two query handlers in the thread
\* pool (async def, line 19; def, lines 40 and 74): an upload may take place
\* between any two steps of a query.
Next ==
  \/ \E filename \in Filenames, c \in Contents : upload_csv(filename, c)
  \/ pc = "idle" /\ \E query \in FewQueries : get_records_read(query)
  \/ get_records_filter
  \/ get_records_page
  \/ pc = "idle" /\ \E q \in FewTerms, skip \in Skips, limit \in {1, DefaultLimit} :
                      search_read(q, skip, limit)
  \/ search_mask
  \/ search_page
  \/ Deliver

Spec == Init /\ [][Next]_vars

\* The queries alone, over every table of the model and the whole range of
\* requests: each starts in the state a first upload leaves, or in Init.
InitQuery ==
  /\ \E c \in Contents :
       IF ReadCsvOk(c)
         THEN /\ df = read_csv(c)
              /\ up = [status |-> 200, rows |-> Len(read_csv(c).rows)]
              /\ lastOk = c
         ELSE /\ df = NoTable
              /\ up = [status |-> 500, rows |-> 0]
              /\ lastOk = "none"
  /\ prevOk = "none"
  /\ pc = "idle"
  /\ rq = NoRequest
  /\ src = "none"
  /\ ldf = NoTable
  /\ results = <<>>
  /\ resp = NoResponse

NextQuery ==
  \/ pc = "idle" /\ \E query \in Queries : get_records_read(query)
  \/ get_records_filter
  \/ get_records_page
  \/ pc = "idle" /\ \E q \in Terms, skip \in Skips, limit \in Limits :
                      search_read(q, skip, limit)
  \/ search_mask
  \/ search_page
  \/ Deliver

SpecQuery == InitQuery /\ [][NextQuery]_vars

\* ------------------------------------------------------------------ claims
Answered == pc = "done"

Succeeded == pc = "done" /\ resp.status = 200

\* the rows of a table as a response shows them
Shown(t) == {[c \in DOMAIN t.rows[i] |-> CleanValue(t.rows[i][c])] : i \in 1..Len(t.rows)}

\* the table the handler read: the one the upload of src installed
Source == IF src = "none" THEN NoTable ELSE read_csv(src)

\* C1: a response to a request that read the store after the upload of B
\* (src) is made of B alone: its rows are rows of B, its total counts no more
\* than the rows of B, and an unfiltered listing counts exactly the rows of B,
\* whatever was uploaded before.
C1_UploadReplaces ==
  Succeeded =>
    /\ resp.body.total <= Len(Source.rows)
    /\ \A i \in 1..Len(resp.body.data) : resp.body.data[i] \in Shown(Source)
    /\ (rq.op = "records" /\ Popped(rq.query) = {})
         => resp.body.total = Len(Source.rows)

C1_Witness ==
  /\ Succeeded
  /\ prevOk = "people"
  /\ lastOk = "scores"
  /\ src = "scores"
  /\ rq.op = "records"
  /\ resp.body.total = 4
  /\ Len(resp.body.data) = 4

\* C2: app.state.df changes only in the step of an upload whose filename ends
\* in ".csv" and whose bytes parse; every other step (a rejected upload, a
\* failed parse, any step of /records or /search) leaves it as it was, and a
\* loaded store never becomes empty again.
C2_OnlySuccessfulUploadWrites ==
  [][/\ df' # df =>
          \E filename \in Filenames, c \in Contents :
            /\ EndsWith(filename, <<".", "c", "s", "v">>)
            /\ ReadCsvOk(c)
            /\ upload_csv(filename, c)
     /\ ~df.isNone => ~df'.isNone]_vars

\* a failed parse on a loaded store, and a request answered from that store
C2_Witness ==
  /\ up.status = 500
  /\ lastOk = "people"
  /\ df = read_csv("people")
  /\ Succeeded
  /\ src = "people"
  /\ resp.body.total = 3

Passes(t, r, query) ==
  \A k \in Popped(query) \cap Columns(t) :
    pandas_eq(r[k], _cast_type(t.dtype[k], query[k]))

\* the response the handler owes to its request on table t alone
Owed(t, request) ==
  IF request.op = "records"
    THEN PageResponse(SelectSeq(t.rows, LAMBDA r : Passes(t, r, request.query)),
                      request.skip, request.limit)
  ELSE IF str_cols(t) = <<>>
    THEN [status |-> 200, body |-> [total |-> 0, data |-> <<>>]]
  ELSE IF ~PatternOk(request.q) THEN ServerError
  ELSE PageResponse(SelectSeq(t.rows, LAMBDA r : Mask(t, r, request.q)),
                    request.skip, request.limit)

\* C10: whatever uploads take place while a request runs, the table the
\* handler works on is the one table the store held when the handler read it,
\* and its filtered rows and its response are those of that table alone.
C10_Snapshot ==
  /\ pc \notin {"idle", "done"} => ldf = Source /\ ~ldf.isNone
  /\ pc = "records_page"
       => results = SelectSeq(Source.rows, LAMBDA r : Passes(Source, r, rq.query))
  /\ pc = "search_page"
       => results = SelectSeq(Source.rows, LAMBDA r : Mask(Source, r, rq.q))
  /\ (Answered /\ src # "none") => resp = Owed(Source, rq)

\* a request answered from the table it read, replaced meanwhile by another
C10_Witness ==
  /\ Succeeded
  /\ src = "people"
  /\ lastOk = "scores"
  /\ df = read_csv("scores")
  /\ rq.op = "records"
  /\ Len(resp.body.data) > 0

CleanRow(r) == [c \in DOMAIN r |-> CleanValue(r[c])]

\* the rows the request in progress selects from the table it read, before
\* pagination, in the table's order
Selected ==
  IF rq.op = "records"
    THEN SelectSeq(ldf.rows, LAMBDA r : Passes(ldf, r, rq.query))
    ELSE SelectSeq(ldf.rows, LAMBDA r : Mask(ldf, r, rq.q))

\* C4: in a successful response to a request with skip >= 0 and limit >= 0,
\* total is the number of rows selected before pagination, data has
\* min(limit, max(0, total - skip)) rows, and they are the selected rows from
\* offset skip on, in the table's order.
C4_Pagination ==
  (Succeeded /\ rq.skip >= 0 /\ rq.limit >= 0) =>
    LET n == Len(resp.body.data) IN
      /\ resp.body.total = Len(Selected)
      /\ n = Min(rq.limit, Max(0, resp.body.total - rq.skip))
      /\ \A i \in 1..n : resp.body.data[i] = CleanRow(Selected[rq.skip + i])

\* skip beyond the selected rows: the total stands and the page is empty
C4_Witness ==
  /\ Succeeded
  /\ rq.op = "records"
  /\ rq.limit > 0
  /\ resp.body.total > 0
  /\ rq.skip > resp.body.total
  /\ resp.body.data = <<>>

\* the coercion of a filter value as the claim words it
Coerced(dtype, value) ==
  CASE dtype = "int64" -> (IF IntOk(value) THEN IntOf(value) ELSE S(value))
    [] dtype = "float64" -> (IF FloatOk(value) THEN FloatOf(value) ELSE S(value))
    [] OTHER -> S(value)

\* the rows of the table read whose cells equal the coerced value of every
\* parameter among keys that names a column
Equal(keys) ==
  SelectSeq(ldf.rows, LAMBDA r :
    \A k \in keys \cap Columns(ldf) :
      pandas_eq(r[k], Coerced(ldf.dtype[k], rq.query[k])))

\* C5 as claimed: every parameter that names a column is a filter, skip and
\* limit included when the table has columns of these names.
C5_AsClaimed ==
  (Answered /\ rq.op = "records" /\ src # "none") =>
    /\ resp.status = 200
    /\ resp.body.total = Len(Equal(DOMAIN rq.query))

\* C5, amended: /records on a loaded table always succeeds, and selects
\* exactly the rows whose cells equal the coerced value of every parameter,
\* other than skip and limit, that names a column; the filters are ANDed,
\* the other parameters ignored, and no filter selects every row.
C5_EqualityFilter ==
  (Answered /\ rq.op = "records" /\ src # "none") =>
    /\ resp.status = 200
    /\ results = Equal(DOMAIN rq.query \ {"skip", "limit"})
    /\ resp.body.total = Len(Equal(DOMAIN rq.query \ {"skip", "limit"}))
    /\ (rq.skip = 0 /\ rq.limit = DefaultLimit)
         => resp.body.data = _clean_df(Equal(DOMAIN rq.query \ {"skip", "limit"}))
    /\ (DOMAIN rq.query \ {"skip", "limit"}) \cap Columns(ldf) = {}
         => resp.body.total = Len(ldf.rows)

\* two filters, one on a text column and one on an integer column, select
\* the one row that passes both
C5_Witness ==
  /\ Succeeded
  /\ src = "people"
  /\ rq.query = [name |-> <<"A", "n", "n">>, age |-> <<"3", "0">>]
  /\ resp.body.total = 1
  /\ resp.body.data = <<[name |-> Ann, age |-> I(30)]>>

\* a request of the one parameter c=text, answered from a loaded table
OneFilter(c) == Succeeded /\ rq.op = "records" /\ DOMAIN rq.query = {c}

\* C6 as claimed: filtering by c set to the textual form of r[c] returns r,
\* for every row r and every column c.
C6_AsClaimed ==
  \A c \in Columns(ldf) :
    OneFilter(c) =>
      \A i \in 1..Len(ldf.rows) :
        TextOf(ldf.rows[i][c]) = rq.query[c]
          => \E j \in 1..Len(resp.body.data) :
               resp.body.data[j] = CleanRow(ldf.rows[i])

\* C6, amended: filtering by c set to the textual form of r[c] returns r, for
\* every integer, float or text column c not named skip or limit and every
\* row r whose cell in c is not missing.
C6_RoundTrip ==
  \A c \in Columns(ldf) \ {"skip", "limit"} :
    (OneFilter(c) /\ ldf.dtype[c] \in {"int64", "float64", "object"}) =>
      \A i \in 1..Len(ldf.rows) :
        (ldf.rows[i][c].t # "nan" /\ TextOf(ldf.rows[i][c]) = rq.query[c])
          => \E j \in 1..Len(resp.body.data) :
               resp.body.data[j] = CleanRow(ldf.rows[i])

\* the float 1.5, filtered by its text "1.5", returns its row
C6_Witness ==
  /\ OneFilter("score")
  /\ rq.query = [score |-> <<"1", ".", "5">>]
  /\ resp.body.data = <<[name |-> Bob, score |-> F(15, 10)]>>

\* x holds y as a run of consecutive characters
IsSubstring(y, x) ==
  \E i \in 0..(Len(x) - Len(y)) : SubSeq(x, i + 1, i + Len(y)) = y

\* a text column of the row holds a text that, lower-cased, contains the
\* lower-cased term
LiteralMatch(t, r, q) ==
  \E c \in Columns(t) :
    /\ t.dtype[c] = "object"
    /\ r[c].t = "str"
    /\ IsSubstring(LowerText(q), LowerText(r[c].s))

\* C7 as claimed: the rows /search returns for a term are exactly the rows
\* with a literal, case-insensitive match in a text column; a missing value
\* matches nothing.
C7_AsClaimed ==
  (Answered /\ rq.op = "search" /\ src # "none"
     /\ rq.skip = 0 /\ rq.limit = DefaultLimit) =>
    /\ resp.status = 200
    /\ resp.body.data
         = _clean_df(SelectSeq(ldf.rows, LAMBDA r : LiteralMatch(ldf, r, rq.q)))

\* the rows of the page, as stored
Page == iloc(results, rq.skip, rq.limit)

\* C8: every value of the returned page that is NaN, +inf or -inf in the
\* stored table is null in the response, every other value of the page is
\* returned as stored, no NaN or infinity is returned, and the stored table
\* is as it was read.
C8_Sanitization ==
  /\ Succeeded =>
       /\ Len(resp.body.data) = Len(Page)
       /\ \A i \in 1..Len(Page) :
            /\ \E j \in 1..Len(ldf.rows) : ldf.rows[j] = Page[i]
            /\ DOMAIN resp.body.data[i] = DOMAIN Page[i]
            /\ \A c \in DOMAIN Page[i] :
                 /\ Page[i][c].t \in {"nan", "inf"} => resp.body.data[i][c] = None
                 /\ Page[i][c].t \in {"int", "float", "str"}
                      => resp.body.data[i][c] = Page[i][c]
                 /\ resp.body.data[i][c].t \notin {"nan", "inf"}
  /\ Answered => ldf = Source /\ df = Source

\* a page with +inf, -inf and NaN returned as null beside a float and a text
C8_Witness ==
  /\ Succeeded
  /\ src = "scores"
  /\ Len(Page) = 4
  /\ Page[2].score = PInf /\ resp.body.data[2].score = None
  /\ Page[3].score = NInf /\ resp.body.data[3].score = None
  /\ Page[4].score = NaN /\ resp.body.data[4].score = None
  /\ Page[2].name = NaN /\ resp.body.data[2].name = None
  /\ resp.body.data[1] = [name |-> Bob, score |-> F(15, 10)]

\* C9 as claimed: every successful /search response has the four fields
\* total, skip, limit and data, with the request's skip and limit.
C9_AsClaimed ==
  (Succeeded /\ rq.op = "search") =>
    /\ DOMAIN resp.body = {"total", "skip", "limit", "data"}
    /\ resp.body.skip = rq.skip
    /\ resp.body.limit = rq.limit

====
